---- MODULE Spec2Model ----
(***************************************************************************)
(* Fan-out / fan-in batch transfer engine of the Solana wallet manager:    *)
(* DistributionService.distribute / collect (src/src/services/             *)
(* distribution.ts) over the WalletManager key store (src/src/utils/       *)
(* wallet.ts) and the TransferService (src/src/services/transfer.ts).      *)
(*                                                                         *)
(* The ledger holds integer lamports.  The program computes in JavaScript  *)
(* numbers (IEEE-754 binary64, round to nearest even), so every SOL amount *)
(* of the program is modelled as a binary64 value and every arithmetic     *)
(* operation of the source rounds as the source does.                      *)
(***************************************************************************)
EXTENDS Integers, Sequences, FiniteSets, TLC

(***************************************************************************)
(* Bounds of the model.                                                    *)
(***************************************************************************)
MaxWallets == 2
MaxCalls == 2
MaxFaults == 2
MaxListed == 3

(***************************************************************************)
(* Program constants.                                                      *)
(***************************************************************************)
LAMPORTS_PER_SOL == 1000000000
FeeNumerator == 5
FeeDivisor == 1000000
MantissaBits == 53
LimbBits == 15
Base == 2 ^ LimbBits
FracLimbs == 6

(***************************************************************************)
(* Natural numbers of any size, as sequences of limbs in base 2^15, least  *)
(* significant limb first, without high zero limbs.  The mantissa of a     *)
(* binary64 has 53 bits and the exact results that are rounded to it have  *)
(* more than TLC's integers hold.                                          *)
(***************************************************************************)
BStrip(x) ==
  LET nz == {i \in 1..Len(x) : x[i] # 0}
  IN  IF nz = {} THEN <<>>
      ELSE SubSeq(x, 1, CHOOSE i \in nz : \A j \in nz : j <= i)

RECURSIVE BFromNat(_)
BFromNat(n) ==
  IF n = 0 THEN <<>> ELSE <<n % Base>> \o BFromNat(n \div Base)

\* The value of x, for x below 2^31.
RECURSIVE BToNat(_)
BToNat(x) ==
  IF x = <<>> THEN 0 ELSE Head(x) + Base * BToNat(Tail(x))

RECURSIVE BAddC(_, _, _)
BAddC(a, b, c) ==
  IF a = <<>> /\ b = <<>> THEN (IF c = 0 THEN <<>> ELSE <<c>>)
  ELSE LET x == IF a = <<>> THEN 0 ELSE Head(a)
           y == IF b = <<>> THEN 0 ELSE Head(b)
           s == x + y + c
           ta == IF a = <<>> THEN <<>> ELSE Tail(a)
           tb == IF b = <<>> THEN <<>> ELSE Tail(b)
       IN  <<s % Base>> \o BAddC(ta, tb, s \div Base)

BAdd(a, b) == BAddC(a, b, 0)

\* a - b for a >= b, borrow propagated from the low end.
RECURSIVE BSubC(_, _, _)
BSubC(a, b, c) ==
  IF a = <<>> THEN <<>>
  ELSE LET y == IF b = <<>> THEN 0 ELSE Head(b)
           d == Head(a) - y - c
           tb == IF b = <<>> THEN <<>> ELSE Tail(b)
       IN  <<d % Base>> \o BSubC(Tail(a), tb, IF d < 0 THEN 1 ELSE 0)

BSub(a, b) == BStrip(BSubC(a, b, 0))

\* -1, 0, 1 as a < b, a = b, a > b.
BCmp(a, b) ==
  IF Len(a) # Len(b) THEN (IF Len(a) < Len(b) THEN -1 ELSE 1)
  ELSE LET diff == {i \in 1..Len(a) : a[i] # b[i]}
       IN  IF diff = {} THEN 0
           ELSE LET top == CHOOSE i \in diff : \A j \in diff : j <= i
                IN  IF a[top] < b[top] THEN -1 ELSE 1

\* a * k for one limb k.
RECURSIVE BMulSmallC(_, _, _)
BMulSmallC(a, k, c) ==
  IF a = <<>> THEN (IF c = 0 THEN <<>> ELSE <<c>>)
  ELSE LET p == Head(a) * k + c
       IN  <<p % Base>> \o BMulSmallC(Tail(a), k, p \div Base)

BMulSmall(a, k) == IF k = 0 THEN <<>> ELSE BMulSmallC(a, k, 0)

BShlLimbs(a, q) == IF a = <<>> THEN <<>> ELSE [i \in 1..q |-> 0] \o a

\* a * 2^k
BShl(a, k) == BShlLimbs(BMulSmall(a, 2 ^ (k % LimbBits)), k \div LimbBits)

\* floor(a / 2^k)
BShr(a, k) ==
  LET q == k \div LimbBits
      s == k % LimbBits
      d == IF q >= Len(a) THEN <<>> ELSE SubSeq(a, q + 1, Len(a))
      up(i) == IF i < Len(d) THEN d[i + 1] ELSE 0
  IN  BStrip([i \in 1..Len(d) |->
                (d[i] \div (2 ^ s)) + (up(i) % (2 ^ s)) * (2 ^ (LimbBits - s))])

\* bit i of a, bit 0 the least significant.
BBit(a, i) ==
  LET q == i \div LimbBits
  IN  IF q >= Len(a) THEN 0 ELSE (a[q + 1] \div (2 ^ (i % LimbBits))) % 2

\* a mod 2^k is not zero.
BLowNonZero(a, k) ==
  LET q == k \div LimbBits
  IN  \/ \E i \in 1..Len(a) : i <= q /\ a[i] # 0
      \/ q < Len(a) /\ a[q + 1] % (2 ^ (k % LimbBits)) # 0

\* number of bits of a.
BBitLen(a) ==
  IF a = <<>> THEN 0
  ELSE LET top == a[Len(a)]
       IN  LimbBits * (Len(a) - 1)
             + (CHOOSE k \in 1..LimbBits : 2 ^ (k - 1) <= top /\ top < 2 ^ k)

RECURSIVE BMul(_, _)
BMul(a, b) ==
  IF b = <<>> \/ a = <<>> THEN <<>>
  ELSE BAdd(BMulSmall(a, Head(b)), BShlLimbs(BMul(a, Tail(b)), 1))

(***************************************************************************)
(* binary64 values: (-1)^neg * m * 2^e with 2^52 <= m < 2^53, or zero.     *)
(* Subnormals, infinities and NaN do not occur for the magnitudes of the   *)
(* program (lamport counts below 2^31 and their quotients by 10^9).        *)
(***************************************************************************)
FZero == [neg |-> FALSE, m |-> <<>>, e |-> 0]

\* Round M * 2^E (plus a non-zero tail below the last bit when sticky) to
\* MantissaBits bits, to nearest, ties to even.
Round53(neg, M, E, sticky) ==
  LET L == BBitLen(M)
      k == L - MantissaBits
  IN  IF L = 0 THEN FZero
      ELSE IF k <= 0 THEN [neg |-> neg, m |-> BShl(M, -k), e |-> E + k]
      ELSE LET kept == BShr(M, k)
               st == sticky \/ BLowNonZero(M, k - 1)
               up == BBit(M, k - 1) = 1 /\ (st \/ BBit(kept, 0) = 1)
               r == IF up THEN BAdd(kept, <<1>>) ELSE kept
           IN  IF BBitLen(r) > MantissaBits
               THEN [neg |-> neg, m |-> BShr(r, 1), e |-> E + k + 1]
               ELSE [neg |-> neg, m |-> r, e |-> E + k]

FFromInt(n) ==
  IF n < 0 THEN Round53(TRUE, BFromNat(-n), 0, FALSE)
  ELSE Round53(FALSE, BFromNat(n), 0, FALSE)

FNeg(x) == IF x.m = <<>> THEN x ELSE [x EXCEPT !.neg = ~x.neg]

\* Magnitudes of x and y over their common exponent.
FAlign(x, y) ==
  LET e == IF x.m = <<>> THEN y.e
           ELSE IF y.m = <<>> THEN x.e
           ELSE IF x.e < y.e THEN x.e ELSE y.e
  IN  [e |-> e,
       X |-> IF x.m = <<>> THEN <<>> ELSE BShl(x.m, x.e - e),
       Y |-> IF y.m = <<>> THEN <<>> ELSE BShl(y.m, y.e - e)]

FAdd(x, y) ==
  LET al == FAlign(x, y)
      c == BCmp(al.X, al.Y)
  IN  IF x.neg = y.neg \/ x.m = <<>> \/ y.m = <<>>
      THEN Round53(IF x.m = <<>> THEN y.neg ELSE x.neg,
                   BAdd(al.X, al.Y), al.e, FALSE)
      ELSE IF c = 0 THEN FZero
      ELSE IF c > 0 THEN Round53(x.neg, BSub(al.X, al.Y), al.e, FALSE)
      ELSE Round53(y.neg, BSub(al.Y, al.X), al.e, FALSE)

FSub(x, y) == FAdd(x, FNeg(y))

FMul(x, y) ==
  IF x.m = <<>> \/ y.m = <<>> THEN FZero
  ELSE Round53(x.neg # y.neg, BMul(x.m, y.m), x.e + y.e, FALSE)

\* -1, 0, 1 as x < y, x = y, x > y (comparison is exact).
FCmp(x, y) ==
  LET al == FAlign(x, y)
      c == BCmp(al.X, al.Y)
      sx == IF x.m = <<>> THEN 0 ELSE IF x.neg THEN -1 ELSE 1
      sy == IF y.m = <<>> THEN 0 ELSE IF y.neg THEN -1 ELSE 1
  IN  IF sx # sy THEN (IF sx < sy THEN -1 ELSE 1)
      ELSE IF sx = 0 THEN 0
      ELSE IF sx > 0 THEN c ELSE -c

FLt(x, y) == FCmp(x, y) < 0
FLe(x, y) == FCmp(x, y) <= 0

\* One limb of the quotient of r * 2^15 by d, bit by bit: r < d < 2^30, so
\* 2r stays below 2^31.
RECURSIVE DivLimb(_, _, _, _)
DivLimb(r, d, k, acc) ==
  IF k = 0 \/ r < 0 \/ acc < 0 THEN [q |-> acc, r |-> r]
  ELSE LET bit == IF 2 * r >= d THEN 1 ELSE 0
       IN  DivLimb(2 * r - bit * d, d, k - 1, 2 * acc + bit)

\* The first n limbs of the fraction r / d, least significant limb first.
RECURSIVE DivFrac(_, _, _)
DivFrac(r, d, n) ==
  IF n = 0 THEN [q |-> <<>>, r |-> r]
  ELSE LET l == DivLimb(r, d, LimbBits, 0)
           rest == DivFrac(l.r, d, n - 1)
       IN  [q |-> Append(rest.q, l.q), r |-> rest.r]

\* n / d for integers 0 <= n < 2^31, 0 < d < 2^30, correctly rounded: the
\* JavaScript quotient of two integer-valued numbers, and the value of a
\* decimal literal n/d with d a power of ten.
FDivInt(n, d) ==
  LET fr == DivFrac(n % d, d, FracLimbs)
      M == BStrip(fr.q \o BFromNat(n \div d))
  IN  Round53(FALSE, M, -(LimbBits * FracLimbs), fr.r # 0)

\* x is an integer.
FIsInteger(x) ==
  \/ x.m = <<>>
  \/ x.e >= 0
  \/ -x.e < MantissaBits /\ ~BLowNonZero(x.m, -x.e)

\* floor of a non-negative x below 2^31.
FFloor(x) ==
  IF x.m = <<>> THEN 0
  ELSE IF x.e >= 0 THEN BToNat(BShl(x.m, x.e))
  ELSE BToNat(BShr(x.m, -x.e))

(***************************************************************************)
(* The inputs of the model.  Amounts are JavaScript numbers; they are      *)
(* drawn as decimal literals with nine places, named by their lamports:    *)
(* 100000000 is the literal 0.1, 1005000 is 0.001005, 1000000 is 0.001.    *)
(***************************************************************************)
WalletCounts == 1..MaxWallets
AmountChoices == {1005000, 100000000}
KeepChoices == {0, 1000000}
ConcurrentAmountChoices == {1005000}
ConcurrentMainBalances == {100005000}
InitialMainBalances == {1010000, 100005000, 500000000}
FundedMainBalances == {300000000}
NetworkFees == {5000}

Main == 0
NoSig == <<>>
Sol(lamports) == FDivInt(lamports, LAMPORTS_PER_SOL)
FeeEstimate == FDivInt(FeeNumerator, FeeDivisor)

VARIABLES
  hasMain,   \* wallet/main.json exists
  files,     \* wallet/distributed/wallet-<index>.json: index -> keypair
  bal,       \* the ledger: lamports of the main address and of every keypair
  pc,        \* position of the caller in distribute / collect
  args,      \* distributionConfig / collectionConfig of the call
  loc,       \* local variables of the call
  result,    \* what the last call returned or raised
  log,       \* per-wallet events of the call, in the order they happened
  ghost,     \* the store and the ledger as they were when the call began,
             \* the balance the pre-flight check read, the balance queries
             \* made, and how the call before this one ended
  calls,     \* number of calls made
  faults,    \* number of network failures so far
  status,    \* what getDistributionStatus gave since the last call ended
  other      \* a second process running distribute on the same directories

vars ==
  <<hasMain, files, bal, pc, args, loc, result, log, ghost, calls, faults,
    status, other>>

(***************************************************************************)
(* WalletManager (src/src/utils/wallet.ts)                                 *)
(***************************************************************************)
\* A count that always finds the directory empty.
getDistributedWalletCountZero(f) == 0

\* A count that gives the index of the last file.
getDistributedWalletCountLastIndex(f) ==
  IF DOMAIN f = {} THEN 0 ELSE Cardinality(DOMAIN f) - 1

getDistributedWalletCount(f) == Cardinality(DOMAIN f)

\* The keypairs of the files, ordered by the index parsed from the name.
loadDistributedWallets(f) ==
  [k \in 1..Cardinality(DOMAIN f) |->
     f[CHOOSE x \in DOMAIN f : Cardinality({y \in DOMAIN f : y < x}) = k - 1]]

\* Keypair.generate(): a keypair no one holds yet.
generateWallet(ledger) == Cardinality(DOMAIN ledger)

\* A save that leaves the new file alone in the directory.
createDistributedWalletAlone(f, index, keypair) == (index :> keypair)

\* A save under the one-based number of the wallet.
createDistributedWalletOneBased(f, index, keypair) == ((index + 1) :> keypair) @@ f

createDistributedWallet(f, index, keypair) == (index :> keypair) @@ f

(***************************************************************************)
(* TransferService.transferSOL (src/src/services/transfer.ts)              *)
(***************************************************************************)
TransferFailure(reason) == [ok |-> FALSE, reason |-> reason, lamports |-> 0, fee |-> 0]

\* What one call of transferSOL from source can do on the ledger.
transferSOL(source, amount, ledger, mayFail) ==
  LET balanceSOL == Sol(ledger[source])
      lamports == FMul(amount, FFromInt(LAMPORTS_PER_SOL))
  IN  IF FLt(balanceSOL, amount) THEN {TransferFailure("InsufficientBalance")}
      ELSE IF ~FIsInteger(lamports) THEN {TransferFailure("NotAnInteger")}
      ELSE (IF mayFail THEN {TransferFailure("Network")} ELSE {})
           \cup {IF ledger[source] >= FFloor(lamports) + fee
                 THEN [ok |-> TRUE, reason |-> "", lamports |-> FFloor(lamports), fee |-> fee]
                 ELSE TransferFailure("Rejected") : fee \in NetworkFees}

\* A transfer that fills the destination up to the amount.
SettleTopUp(ledger, source, destination, t) ==
  IF t.ok
  THEN [a \in DOMAIN ledger |->
          IF a = source THEN ledger[a] - t.lamports - t.fee
          ELSE IF a = destination
               THEN (IF ledger[a] < t.lamports THEN t.lamports ELSE ledger[a])
          ELSE ledger[a]]
  ELSE ledger

Settle(ledger, source, destination, t) ==
  IF t.ok
  THEN [a \in DOMAIN ledger |->
          IF a = source THEN ledger[a] - t.lamports - t.fee
          ELSE IF a = destination THEN ledger[a] + t.lamports
          ELSE ledger[a]]
  ELSE ledger

(***************************************************************************)
(* DistributionService (src/src/services/distribution.ts)                  *)
(***************************************************************************)
\* distribute with the wallets created before the balance is checked.
DistributeStepsCreateFirst ==
  <<"d_main", "d_create", "d_balance", "d_load", "d_loop", "d_return">>

\* The statements of distribute and of collect, in the order of the source.
DistributeSteps == <<"d_main", "d_balance", "d_create", "d_load", "d_loop", "d_return">>
CollectSteps == <<"c_main", "c_load", "c_loop", "c_return">>

StepAfter(steps, step) ==
  steps[(CHOOSE k \in 1..Len(steps) : steps[k] = step) + 1]

\* balance < totalRequired + estimatedFees
InsufficientBalance(balance, walletCount, amountPerWallet) ==
  LET totalRequired == FMul(FFromInt(walletCount), amountPerWallet)
      estimatedFees == FMul(FFromInt(walletCount), FeeEstimate)
  IN  FLt(balance, FAdd(totalRequired, estimatedFees))

\* The loaded wallets without the slice.
TargetWalletsAll(distributedWallets, walletCount) == distributedWallets

\* A slice that keeps the last walletCount wallets.
TargetWalletsLast(distributedWallets, walletCount) ==
  SubSeq(distributedWallets,
         IF walletCount < Len(distributedWallets)
         THEN Len(distributedWallets) - walletCount + 1 ELSE 1,
         Len(distributedWallets))

\* distributedWallets.slice(0, walletCount)
TargetWallets(distributedWallets, walletCount) ==
  SubSeq(distributedWallets, 1,
         IF walletCount < Len(distributedWallets) THEN walletCount
         ELSE Len(distributedWallets))

\* The amount without keepAmount taken off.
TransferAmountKeepNothing(balance, keepAmount) == FSub(balance, FeeEstimate)

\* The amount without the fee taken off.
TransferAmountNoFee(balance, keepAmount) == FSub(balance, keepAmount)

\* balance - keepAmount - 0.000005
TransferAmount(balance, keepAmount) == FSub(FSub(balance, keepAmount), FeeEstimate)

\* A collect that skips no wallet.
SkipWalletNever(transferAmount) == FALSE

\* transferAmount <= 0
SkipWallet(transferAmount) == FLe(transferAmount, FZero)

\* A success flag that looks at nothing.
SuccessAlways(errors) == TRUE

\* success: errors.length === 0
Success(errors) == Len(errors) = 0

\* A loop that ends after its first wallet.
InLoopFirstOnly(i, wallets) == i < 1 /\ i < Len(wallets)

\* the loop condition i < wallets.length
InLoop(i, wallets) == i < Len(wallets)

\* A pacing after every wallet.
DelayAfterEvery(i, wallets) == TRUE

\* the pacing condition i < wallets.length - 1
DelayAfter(i, wallets) == i < Len(wallets) - 1

\* A loop that tries a wallet again when its transfer failed.
NextIndexRetry(i, ok) == IF ok THEN i + 1 ELSE i

\* i++ at the end of the loop body, whatever the transfer did
NextIndex(i, ok) == i + 1

\* inFlight: the wallets (by position) whose transfer was called and has not
\* returned or thrown; transferAmount: the amount of the transfer in flight
\* in collect; delays: the positions after which a pacing delay elapsed.
NoLocals ==
  [i |-> 0, existingWalletCount |-> 0, targetWallets |-> <<>>,
   signatures |-> <<>>, walletInfo |-> <<>>, errors |-> <<>>,
   successCount |-> 0, totalCollected |-> FZero,
   inFlight |-> {}, transferAmount |-> FZero, delays |-> <<>>]

NoArgs == [walletCount |-> 0, amountPerWallet |-> FZero, keepAmount |-> FZero]

NoResult ==
  [op |-> "none", kind |-> "none", error |-> "", success |-> FALSE,
   signatures |-> <<>>, wallets |-> <<>>, errors |-> <<>>,
   totalCollected |-> FZero]

Raised(op, error) == [NoResult EXCEPT !.op = op, !.kind = "raised", !.error = error]

NoGhost ==
  [op |-> "none", amountLamports |-> 0, keepLamports |-> 0, hadMain |-> FALSE,
   files0 |-> <<>>, bal0 |-> <<>>, balance |-> -1, queries |-> 0,
   prevOp |-> "none", prevKind |-> "none", prevWalletCount |-> 0,
   prevKeepLamports |-> 0, prevSuccess |-> FALSE, prevTransferFailed |-> FALSE,
   prevAmountLamports |-> 0]

\* getDistributionStatus has not been called
NoStatus ==
  [kind |-> "none",
   mainWallet |-> [present |-> FALSE, publicKey |-> 0, balance |-> FZero],
   distributedWallets |-> <<>>, totalDistributed |-> FZero, queried |-> <<>>]

\* no second process; overlap: a call of one process began while a call of
\* the other was running
NoOther ==
  [pc |-> "none", walletCount |-> 0, amountPerWallet |-> FZero,
   existingWalletCount |-> 0, i |-> 0, targetWallets |-> <<>>,
   overlap |-> FALSE]

Init ==
  /\ status = NoStatus
  /\ other = NoOther
  /\ hasMain = FALSE
  /\ files = <<>>
  /\ \E b \in InitialMainBalances : bal = (Main :> b)
  /\ pc = "idle"
  /\ args = NoArgs
  /\ loc = NoLocals
  /\ result = NoResult
  /\ log = <<>>
  /\ ghost = NoGhost
  /\ calls = 0
  /\ faults = 0

\* The wallet directories as an earlier run of the program left them: a main
\* wallet and n distributed wallets that a distribute of amountLamports each
\* has funded.  The earlier run filled the directory up to MaxWallets.
FundedStore(n, amountLamports, mainLamports) ==
  /\ hasMain = TRUE
  /\ files = [index \in 0..(n - 1) |-> index + 1]
  /\ bal = [a \in 0..n |-> IF a = Main THEN mainLamports ELSE amountLamports]

\* The program starts on empty directories or on directories with funded
\* wallets.
InitFunded ==
  \/ Init
  \/ /\ \E n \in {MaxWallets}, amountLamports \in AmountChoices,
            mainLamports \in FundedMainBalances :
          FundedStore(n, amountLamports, mainLamports)
     /\ status = NoStatus
     /\ other = NoOther
     /\ pc = "idle"
     /\ args = NoArgs
     /\ loc = NoLocals
     /\ result = NoResult
     /\ log = <<>>
     /\ ghost = NoGhost
     /\ calls = 0
     /\ faults = 0

\* index.ts: the user saves a generated keypair as the main wallet.
saveMainWallet ==
  /\ pc \in {"idle", "crashed"}
  /\ ~hasMain
  /\ hasMain' = TRUE
  /\ status' = NoStatus
  /\ UNCHANGED <<files, bal, pc, args, loc, result, log, ghost, calls, faults,
                 other>>

BeginCall(op, amountLamports, keepLamports) ==
  /\ pc \in {"idle", "crashed"}
  /\ calls < MaxCalls
  /\ calls' = calls + 1
  /\ loc' = NoLocals
  /\ log' = <<>>
  /\ result' = [NoResult EXCEPT !.op = op]
  /\ ghost' = [op |-> op, amountLamports |-> amountLamports,
               keepLamports |-> keepLamports, hadMain |-> hasMain,
               files0 |-> files, bal0 |-> bal, balance |-> -1, queries |-> 0,
               prevOp |-> result.op, prevKind |-> result.kind,
               prevWalletCount |-> args.walletCount,
               prevKeepLamports |-> ghost.keepLamports,
               prevSuccess |-> result.success,
               prevTransferFailed |->
                 \E k \in 1..Len(log) : log[k].kind = "transfer" /\ ~log[k].ok,
               prevAmountLamports |-> ghost.amountLamports]
  /\ status' = NoStatus
  /\ other' = [other EXCEPT !.overlap = @ \/ other.pc \notin {"none", "done"}]
  /\ UNCHANGED <<hasMain, files, bal, faults>>

Raise(op, error) ==
  /\ result' = Raised(op, error)
  /\ pc' = "idle"

\* The pc after the body of the loop for index i has run.
LoopPc(i, wallets, loopStep, steps) ==
  IF InLoop(i, wallets) THEN loopStep ELSE StepAfter(steps, loopStep)

(***************************************************************************)
(* distribute                                                              *)
(***************************************************************************)
Distribute(walletCount, amountLamports) ==
  /\ BeginCall("distribute", amountLamports, 0)
  /\ args' = [walletCount |-> walletCount,
              amountPerWallet |-> Sol(amountLamports), keepAmount |-> FZero]
  /\ pc' = DistributeSteps[1]

DistributeCheckMain ==
  /\ pc = "d_main"
  /\ IF ~hasMain THEN Raise("distribute", "MissingMainWallet")
     ELSE pc' = StepAfter(DistributeSteps, "d_main") /\ UNCHANGED result
  /\ UNCHANGED <<hasMain, files, bal, args, loc, log, ghost, calls, faults,
               status, other>>

DistributeCheckBalance ==
  /\ pc = "d_balance"
  /\ \/ /\ faults < MaxFaults
        /\ faults' = faults + 1
        /\ ghost' = [ghost EXCEPT !.queries = @ + 1]
        /\ Raise("distribute", "BalanceQueryFailed")
     \/ /\ ghost' = [ghost EXCEPT !.queries = @ + 1, !.balance = bal[Main]]
        /\ IF InsufficientBalance(Sol(bal[Main]), args.walletCount,
                                  args.amountPerWallet)
           THEN Raise("distribute", "InsufficientFunds")
           ELSE pc' = StepAfter(DistributeSteps, "d_balance") /\ UNCHANGED result
        /\ UNCHANGED faults
  /\ UNCHANGED <<hasMain, files, bal, args, loc, log, calls,
               status, other>>

DistributeCountWallets ==
  /\ pc = "d_create"
  /\ LET existingWalletCount == getDistributedWalletCount(files)
     IN  /\ loc' = [loc EXCEPT !.existingWalletCount = existingWalletCount,
                               !.i = existingWalletCount]
         /\ pc' = IF existingWalletCount < args.walletCount THEN "d_creating"
                  ELSE StepAfter(DistributeSteps, "d_create")
  /\ UNCHANGED <<hasMain, files, bal, args, result, log, ghost, calls, faults,
               status, other>>

DistributeCreateWallet ==
  /\ pc = "d_creating"
  /\ LET keypair == generateWallet(bal)
     IN  /\ files' = createDistributedWallet(files, loc.i, keypair)
         /\ bal' = bal @@ (keypair :> 0)
  /\ loc' = [loc EXCEPT !.i = @ + 1]
  /\ pc' = IF loc.i + 1 < args.walletCount THEN "d_creating"
           ELSE StepAfter(DistributeSteps, "d_create")
  /\ UNCHANGED <<hasMain, args, result, log, ghost, calls, faults,
               status, other>>

\* The process is stopped between two wallet creations: the creation loop is
\* not transactional, the files written so far stay.
InterruptCreation ==
  /\ pc = "d_creating"
  /\ loc.i > loc.existingWalletCount
  /\ pc' = "crashed"
  /\ UNCHANGED <<hasMain, files, bal, args, loc, result, log, ghost, calls, faults,
                 status, other>>

DistributeLoadWallets ==
  /\ pc = "d_load"
  /\ LET targetWallets == TargetWallets(loadDistributedWallets(files), args.walletCount)
     IN  /\ loc' = [loc EXCEPT !.targetWallets = targetWallets, !.i = 0]
         /\ pc' = LoopPc(0, targetWallets, StepAfter(DistributeSteps, "d_load"),
                         DistributeSteps)
  /\ UNCHANGED <<hasMain, files, bal, args, result, log, ghost, calls, faults,
               status, other>>

\* the body of try, after transferSOL returned signature
DistributeSuccess(l, wallet, amount, signature) ==
  [l EXCEPT !.signatures = Append(@, signature),
            !.walletInfo = Append(@, [publicKey |-> wallet, amount |-> amount]),
            !.successCount = @ + 1]

\* A catch block that records the error and no placeholder.
DistributeCatchNoPlaceholder(l, reason) ==
  [l EXCEPT !.errors = Append(@, [wallet |-> l.i + 1, reason |-> reason])]

\* the catch block
DistributeCatch(l, reason) ==
  [l EXCEPT !.errors = Append(@, [wallet |-> l.i + 1, reason |-> reason]),
            !.signatures = Append(@, NoSig)]

TransferEvent(slot, source, destination, amount, balance, t) ==
  [kind |-> "transfer", slot |-> slot, source |-> source,
   destination |-> destination, amount |-> amount, balance |-> balance,
   ok |-> t.ok, reason |-> t.reason]

\* A call that goes on before the transfer has ended.
ReturnedUnnoticed(l) == l

\* the awaited call returned or threw
Returned(l) == [l EXCEPT !.inFlight = @ \ {l.i + 1}, !.transferAmount = FZero]

\* transferService.transferSOL is called for the wallet at position i
DistributeCallTransfer ==
  /\ pc = "d_loop"
  /\ InLoop(loc.i, loc.targetWallets)
  /\ loc' = [loc EXCEPT !.inFlight = @ \cup {loc.i + 1}]
  /\ pc' = "d_await"
  /\ UNCHANGED <<hasMain, files, bal, args, result, log, ghost, calls, faults,
                 status, other>>

\* the call returns a signature or throws; then the pacing delay or the next
\* index
DistributeTransfer ==
  /\ pc = "d_await"
  /\ LET wallet == loc.targetWallets[loc.i + 1]
     IN  \E t \in transferSOL(Main, args.amountPerWallet, bal, faults < MaxFaults) :
           /\ bal' = Settle(bal, Main, wallet, t)
           /\ faults' = IF t.reason = "Network" THEN faults + 1 ELSE faults
           /\ log' = Append(log, TransferEvent(loc.i + 1, Main, wallet,
                                               args.amountPerWallet, bal[Main], t))
           /\ LET l == Returned(IF t.ok
                                THEN DistributeSuccess(loc, wallet, args.amountPerWallet,
                                                       <<Main, wallet>>)
                                ELSE DistributeCatch(loc, t.reason))
              IN  IF DelayAfter(loc.i, loc.targetWallets)
                  THEN loc' = l /\ pc' = "d_delay"
                  ELSE /\ loc' = [l EXCEPT !.i = NextIndex(loc.i, t.ok)]
                       /\ pc' = LoopPc(NextIndex(loc.i, t.ok), loc.targetWallets,
                                       "d_loop", DistributeSteps)
  /\ UNCHANGED <<hasMain, files, args, result, ghost, calls,
               status, other>>

DistributeDelay ==
  /\ pc = "d_delay"
  /\ LET i == NextIndex(loc.i, log[Len(log)].ok)
     IN  /\ loc' = [loc EXCEPT !.i = i, !.delays = Append(@, loc.i + 1)]
         /\ pc' = LoopPc(i, loc.targetWallets, "d_loop", DistributeSteps)
  /\ UNCHANGED <<hasMain, files, bal, args, result, log, ghost, calls, faults,
               status, other>>

DistributeReturn ==
  /\ pc = "d_return"
  /\ result' = [op |-> "distribute", kind |-> "returned", error |-> "",
                success |-> Success(loc.errors), signatures |-> loc.signatures,
                wallets |-> loc.walletInfo, errors |-> loc.errors,
                totalCollected |-> FZero]
  /\ pc' = "idle"
  /\ UNCHANGED <<hasMain, files, bal, args, loc, log, ghost, calls, faults,
               status, other>>

(***************************************************************************)
(* collect                                                                 *)
(***************************************************************************)
Collect(keepLamports) ==
  /\ BeginCall("collect", 0, keepLamports)
  /\ args' = [walletCount |-> 0, amountPerWallet |-> FZero,
              keepAmount |-> Sol(keepLamports)]
  /\ pc' = CollectSteps[1]

CollectCheckMain ==
  /\ pc = "c_main"
  /\ IF ~hasMain THEN Raise("collect", "MissingMainWallet")
     ELSE pc' = StepAfter(CollectSteps, "c_main") /\ UNCHANGED result
  /\ UNCHANGED <<hasMain, files, bal, args, loc, log, ghost, calls, faults,
               status, other>>

\* An empty collection reported as a failure.
EmptyCollectionFailed ==
  [op |-> "collect", kind |-> "returned", error |-> "", success |-> FALSE,
   signatures |-> <<>>, wallets |-> <<>>, errors |-> <<>>,
   totalCollected |-> FZero]

\* the result returned when no distributed wallet is found
EmptyCollection ==
  [op |-> "collect", kind |-> "returned", error |-> "", success |-> TRUE,
   signatures |-> <<>>, wallets |-> <<>>, errors |-> <<>>,
   totalCollected |-> FZero]

CollectLoadWallets ==
  /\ pc = "c_load"
  /\ LET distributedWallets == loadDistributedWallets(files)
     IN  IF Len(distributedWallets) = 0
         THEN result' = EmptyCollection /\ pc' = "idle" /\ UNCHANGED loc
         ELSE /\ loc' = [loc EXCEPT !.targetWallets = distributedWallets, !.i = 0]
              /\ pc' = StepAfter(CollectSteps, "c_load")
              /\ UNCHANGED result
  /\ UNCHANGED <<hasMain, files, bal, args, log, ghost, calls, faults,
               status, other>>

\* the body of try, after transferSOL returned signature
CollectSuccess(l, transferAmount, signature) ==
  [l EXCEPT !.signatures = Append(@, signature),
            !.totalCollected = FAdd(@, transferAmount),
            !.successCount = @ + 1]

\* A catch block of collect that records the error and no placeholder.
CollectCatchNoPlaceholder(l, transferAmount, reason) ==
  [l EXCEPT !.errors = Append(@, [wallet |-> l.i + 1, reason |-> reason])]

\* A catch block that counts the amount it failed to move.
CollectCatchCounting(l, transferAmount, reason) ==
  [l EXCEPT !.errors = Append(@, [wallet |-> l.i + 1, reason |-> reason]),
            !.signatures = Append(@, NoSig),
            !.totalCollected = FAdd(@, transferAmount)]

\* the catch block
CollectCatch(l, transferAmount, reason) ==
  [l EXCEPT !.errors = Append(@, [wallet |-> l.i + 1, reason |-> reason]),
            !.signatures = Append(@, NoSig)]

\* after try / catch: the pacing delay, then the next index
AfterCollectBody(l, ok) ==
  IF DelayAfter(loc.i, loc.targetWallets)
  THEN loc' = l /\ pc' = "c_delay"
  ELSE /\ loc' = [l EXCEPT !.i = NextIndex(loc.i, ok)]
       /\ pc' = LoopPc(NextIndex(loc.i, ok), loc.targetWallets, "c_loop",
                       CollectSteps)

CollectWallet ==
  /\ pc = "c_loop"
  /\ InLoop(loc.i, loc.targetWallets)
  /\ ghost' = [ghost EXCEPT !.queries = @ + 1]
  /\ LET wallet == loc.targetWallets[loc.i + 1]
     IN  \/ \* getSOLBalance throws
            /\ faults < MaxFaults
            /\ faults' = faults + 1
            /\ log' = Append(log, [kind |-> "balance_error", slot |-> loc.i + 1,
                                   source |-> wallet, destination |-> Main,
                                   amount |-> FZero, balance |-> -1,
                                   ok |-> FALSE, reason |-> "Network"])
            /\ AfterCollectBody(CollectCatch(loc, FZero, "Network"), FALSE)
            /\ UNCHANGED bal
         \/ \E transferAmount \in {TransferAmount(Sol(bal[wallet]), args.keepAmount)} :
              IF SkipWallet(transferAmount)
              THEN \* continue
                   /\ log' = Append(log, [kind |-> "skip", slot |-> loc.i + 1,
                                          source |-> wallet, destination |-> Main,
                                          amount |-> transferAmount,
                                          balance |-> bal[wallet],
                                          ok |-> FALSE, reason |-> ""])
                   /\ loc' = [loc EXCEPT !.i = @ + 1]
                   /\ pc' = LoopPc(loc.i + 1, loc.targetWallets, "c_loop", CollectSteps)
                   /\ UNCHANGED <<bal, faults>>
              ELSE \* transferService.transferSOL is called
                   /\ loc' = [loc EXCEPT !.inFlight = @ \cup {loc.i + 1},
                                         !.transferAmount = transferAmount]
                   /\ pc' = "c_await"
                   /\ UNCHANGED <<bal, faults, log>>
  /\ UNCHANGED <<hasMain, files, args, result, calls,
               status, other>>

\* the call returns a signature or throws; then the pacing delay or the next
\* index
CollectTransfer ==
  /\ pc = "c_await"
  /\ LET wallet == loc.targetWallets[loc.i + 1]
         transferAmount == loc.transferAmount
     IN  \E t \in transferSOL(wallet, transferAmount, bal, faults < MaxFaults) :
           /\ bal' = Settle(bal, wallet, Main, t)
           /\ faults' = IF t.reason = "Network" THEN faults + 1 ELSE faults
           /\ log' = Append(log, TransferEvent(loc.i + 1, wallet, Main,
                                               transferAmount, bal[wallet], t))
           /\ AfterCollectBody(Returned(IF t.ok
                                        THEN CollectSuccess(loc, transferAmount,
                                                            <<wallet, Main>>)
                                        ELSE CollectCatch(loc, transferAmount,
                                                          t.reason)),
                               t.ok)
  /\ UNCHANGED <<hasMain, files, args, result, ghost, calls,
               status, other>>

CollectDelay ==
  /\ pc = "c_delay"
  /\ LET i == NextIndex(loc.i, log[Len(log)].ok)
     IN  /\ loc' = [loc EXCEPT !.i = i, !.delays = Append(@, loc.i + 1)]
         /\ pc' = LoopPc(i, loc.targetWallets, "c_loop", CollectSteps)
  /\ UNCHANGED <<hasMain, files, bal, args, result, log, ghost, calls, faults,
               status, other>>

CollectReturn ==
  /\ pc = "c_return"
  /\ result' = [op |-> "collect", kind |-> "returned", error |-> "",
                success |-> Success(loc.errors), signatures |-> loc.signatures,
                wallets |-> <<>>, errors |-> loc.errors,
                totalCollected |-> loc.totalCollected]
  /\ pc' = "idle"
  /\ UNCHANGED <<hasMain, files, bal, args, loc, log, ghost, calls, faults,
               status, other>>

(***************************************************************************)
(* getDistributionStatus                                                   *)
(***************************************************************************)
\* mainWallet = null
null == [present |-> FALSE, publicKey |-> Main, balance |-> FZero]

\* A status that asks for the main balance whether or not the file exists.
MainWalletInfoUnchecked(exists, ledger) ==
  [present |-> TRUE, publicKey |-> Main, balance |-> Sol(ledger[Main])]

\* the main wallet info: queried only if the main wallet exists
MainWalletInfo(exists, ledger) ==
  IF exists
  THEN [present |-> TRUE, publicKey |-> Main, balance |-> Sol(ledger[Main])]
  ELSE null

\* distributedWalletInfo: one entry per loaded wallet, in the order loaded
DistributedWalletInfo(distributedWallets, ledger) ==
  [k \in 1..Len(distributedWallets) |->
     [publicKey |-> distributedWallets[k],
      balance |-> Sol(ledger[distributedWallets[k]]),
      index |-> k - 1]]

\* A total that keeps the last balance only.
TotalDistributedLastOnly(infos) ==
  IF infos = <<>> THEN FZero ELSE infos[Len(infos)].balance

\* totalDistributed += balance, from 0, in the order of the list
RECURSIVE TotalDistributed(_)
TotalDistributed(infos) ==
  IF infos = <<>> THEN FZero
  ELSE FAdd(TotalDistributed(SubSeq(infos, 1, Len(infos) - 1)),
            infos[Len(infos)].balance)

\* A failed balance query makes the whole call raise; it leaves nothing
\* behind, so it is not counted in faults.
getDistributionStatus ==
  /\ pc \in {"idle", "crashed"}
  /\ calls < MaxCalls
  /\ calls' = calls + 1
  /\ LET mainWallet == MainWalletInfo(hasMain, bal)
         distributedWallets == loadDistributedWallets(files)
         queried == (IF mainWallet.present THEN <<Main>> ELSE <<>>)
                      \o distributedWallets
     IN  \/ /\ queried # <<>>
            /\ \E n \in 1..Len(queried) :
                 status' = [NoStatus EXCEPT !.kind = "raised",
                                            !.queried = SubSeq(queried, 1, n)]
         \/ \E infos \in {DistributedWalletInfo(distributedWallets, bal)} :
              status' = [kind |-> "returned", mainWallet |-> mainWallet,
                         distributedWallets |-> infos,
                         totalDistributed |-> TotalDistributed(infos),
                         queried |-> queried]
  /\ UNCHANGED <<hasMain, files, bal, pc, args, loc, result, log, ghost, faults,
                 other>>

(***************************************************************************)
(* distribute called by a second process on the same wallet directories    *)
(* (a second run of scripts/distribute.ts).  Its steps are those of        *)
(* distribute above with its own locals.  What it reads before it counts   *)
(* the wallet files is read in one step, and its transfers are made in one *)
(* step: the steps between which the first process can write a wallet file *)
(* are kept apart.  Its requests to the network are all answered.          *)
(***************************************************************************)
\* the second process has ended: its locals are gone
OtherDone(o) == [NoOther EXCEPT !.pc = "done", !.overlap = o.overlap]

OtherDistribute(walletCount, amountLamports) ==
  /\ other.pc = "none"
  /\ calls < MaxCalls
  /\ calls' = calls + 1
  /\ LET began == [NoOther EXCEPT !.walletCount = walletCount,
                                  !.amountPerWallet = Sol(amountLamports),
                                  !.overlap = other.overlap
                                                \/ pc \notin {"idle", "crashed"}]
     IN  other' = IF \/ ~hasMain
                     \/ InsufficientBalance(Sol(bal[Main]), walletCount,
                                            Sol(amountLamports))
                  THEN OtherDone(began)
                  ELSE [began EXCEPT !.pc = "d_create"]
  /\ UNCHANGED <<hasMain, files, bal, pc, args, loc, result, log, ghost, faults,
                 status>>

OtherCountWallets ==
  /\ other.pc = "d_create"
  /\ LET existingWalletCount == getDistributedWalletCount(files)
     IN  other' = [other EXCEPT
                     !.existingWalletCount = existingWalletCount,
                     !.i = existingWalletCount,
                     !.pc = IF existingWalletCount < other.walletCount
                            THEN "d_creating" ELSE "d_load"]
  /\ UNCHANGED <<hasMain, files, bal, pc, args, loc, result, log, ghost, calls,
                 faults, status>>

OtherCreateWallet ==
  /\ other.pc = "d_creating"
  /\ LET keypair == generateWallet(bal)
     IN  /\ files' = createDistributedWallet(files, other.i, keypair)
         /\ bal' = bal @@ (keypair :> 0)
  /\ other' = [other EXCEPT
                 !.i = @ + 1,
                 !.pc = IF other.i + 1 < other.walletCount THEN "d_creating"
                        ELSE "d_load"]
  /\ UNCHANGED <<hasMain, pc, args, loc, result, log, ghost, calls, faults,
                 status>>

OtherLoadWallets ==
  /\ other.pc = "d_load"
  /\ other' = [other EXCEPT
                 !.targetWallets = TargetWallets(loadDistributedWallets(files),
                                                 other.walletCount),
                 !.i = 0,
                 !.pc = "d_loop"]
  /\ UNCHANGED <<hasMain, files, bal, pc, args, loc, result, log, ghost, calls,
                 faults, status>>

\* The ledgers that the transfers of amount to the wallets, one after the
\* other, can leave.
RECURSIVE TransferAll(_, _, _)
TransferAll(ledger, wallets, amount) ==
  IF wallets = <<>> THEN {ledger}
  ELSE UNION {TransferAll(Settle(ledger, Main, Head(wallets), t), Tail(wallets),
                          amount) :
                t \in transferSOL(Main, amount, ledger, FALSE)}

\* the transfer loop of the second process and its return
OtherTransfers ==
  /\ other.pc = "d_loop"
  /\ bal' \in TransferAll(bal, other.targetWallets, other.amountPerWallet)
  /\ other' = OtherDone(other)
  /\ UNCHANGED <<hasMain, files, pc, args, loc, result, log, ghost, calls,
                 faults, status>>

Next ==
  \/ saveMainWallet
  \/ \E walletCount \in WalletCounts, amountLamports \in AmountChoices :
       Distribute(walletCount, amountLamports)
  \/ DistributeCheckMain
  \/ DistributeCheckBalance
  \/ DistributeCountWallets
  \/ DistributeCreateWallet
  \/ InterruptCreation
  \/ DistributeLoadWallets
  \/ DistributeCallTransfer
  \/ DistributeTransfer
  \/ DistributeDelay
  \/ DistributeReturn
  \/ \E keepLamports \in KeepChoices : Collect(keepLamports)
  \/ CollectCheckMain
  \/ CollectLoadWallets
  \/ CollectWallet
  \/ CollectTransfer
  \/ CollectDelay
  \/ CollectReturn
  \/ getDistributionStatus

Spec == Init /\ [][Next]_vars

\* the steps of a call that run without waiting for the network or a timer
\* that can fail to end: what the event loop runs next
CallStep ==
  \/ DistributeCheckMain
  \/ DistributeCountWallets
  \/ DistributeCreateWallet
  \/ DistributeLoadWallets
  \/ DistributeCallTransfer
  \/ DistributeDelay
  \/ DistributeReturn
  \/ CollectCheckMain
  \/ CollectLoadWallets
  \/ CollectDelay
  \/ CollectReturn

\* the call is waiting for a balance query or a transfer to return or throw
Awaiting ==
  \/ pc \in {"d_balance", "d_await", "c_await"}
  \/ pc = "c_loop" /\ InLoop(loc.i, loc.targetWallets)

\* Every step the event loop can run is run, and every balance query and
\* transfer the call awaits returns or throws: the call is not left waiting
\* for ever.  The second conjunct is weak fairness of DistributeCheckBalance,
\* DistributeTransfer, CollectWallet and CollectTransfer, which are enabled
\* exactly in the Awaiting states and each leave the state they wait in.
SpecLive == Init /\ [][Next]_vars /\ WF_vars(CallStep) /\ []<>(~Awaiting)

(***************************************************************************)
(* The enumeration of the wallet directory by its file names                *)
(* (src/src/utils/wallet.ts, loadDistributedWallets).  A file name is       *)
(* modelled by the decimal digits between "wallet-" and ".json".            *)
(***************************************************************************)
\* the indices a wallet file of the directory can have
ListedIndices == {0, 1, 2, 9, 10, 11}

\* `wallet-${index}.json`: the decimal digits of index
RECURSIVE FileName(_)
FileName(index) ==
  IF index < 10 THEN <<index>>
  ELSE Append(FileName(index \div 10), index % 10)

\* parseInt(file.match(/wallet-(\d+)\.json/)[1])
RECURSIVE ParseIndex(_)
ParseIndex(name) ==
  IF Len(name) = 0 THEN 0
  ELSE ParseIndex(SubSeq(name, 1, Len(name) - 1)) * 10 + name[Len(name)]

\* The order of the names as strings, which sort() without a comparator uses.
RECURSIVE CompareLexicographic(_, _)
CompareLexicographic(a, b) ==
  IF Len(a) = 0 /\ Len(b) = 0 THEN 0
  ELSE IF Len(a) = 0 THEN -1
  ELSE IF Len(b) = 0 THEN 1
  ELSE IF Head(a) # Head(b) THEN Head(a) - Head(b)
  ELSE CompareLexicographic(Tail(a), Tail(b))

\* the comparator of the sort: aIndex - bIndex
CompareFileNames(a, b) == ParseIndex(a) - ParseIndex(b)

\* name put into a sorted list, behind the names that do not compare above it
RECURSIVE InsertSorted(_, _)
InsertSorted(sorted, name) ==
  IF sorted = <<>> THEN <<name>>
  ELSE IF CompareFileNames(name, Head(sorted)) < 0 THEN <<name>> \o sorted
  ELSE <<Head(sorted)>> \o InsertSorted(Tail(sorted), name)

\* files.sort(comparator)
RECURSIVE SortFileNames(_)
SortFileNames(listing) ==
  IF listing = <<>> THEN <<>>
  ELSE InsertSorted(SortFileNames(SubSeq(listing, 1, Len(listing) - 1)),
                    listing[Len(listing)])

\* fs.readdirSync: the names of the files, in an order the file system chooses
readdirSync(f) ==
  LET names == {FileName(index) : index \in DOMAIN f}
      n == Cardinality(names)
  IN  {listing \in [1..n -> names] :
         \A j, k \in 1..n : j # k => listing[j] # listing[k]}

\* loadDistributedWallets on the listing that readdirSync gave: the keypair of
\* each file, in the order of the sorted names
loadDistributedWalletsFrom(f, listing) ==
  LET sorted == SortFileNames(listing)
  IN  [k \in 1..Len(sorted) |-> f[ParseIndex(sorted[k])]]

\* A directory with at most MaxListed wallet files, made by earlier runs.
InitEnumerate ==
  /\ status = NoStatus
  /\ other = NoOther
  /\ hasMain = FALSE
  /\ \E indices \in SUBSET ListedIndices :
       /\ Cardinality(indices) <= MaxListed
       /\ files = [index \in indices |->
                    Cardinality({other_index \in ListedIndices :
                                   other_index <= index})]
  /\ bal = [a \in 0..Cardinality(ListedIndices) |-> 0]
  /\ pc = "idle"
  /\ args = NoArgs
  /\ loc = NoLocals
  /\ result = NoResult
  /\ log = <<>>
  /\ ghost = NoGhost
  /\ calls = 0
  /\ faults = 0

\* loadDistributedWallets is called: loc.targetWallets is what it returned,
\* calls the number of enumerations since the last creation
Enumerate ==
  /\ calls < MaxCalls
  /\ calls' = calls + 1
  /\ \E listing \in readdirSync(files) :
       loc' = [NoLocals EXCEPT
                 !.targetWallets = loadDistributedWalletsFrom(files, listing)]
  /\ UNCHANGED <<hasMain, files, bal, pc, args, result, log, ghost, faults,
                 status, other>>

\* createDistributedWallet(index) on the directory
CreateListed ==
  /\ Cardinality(DOMAIN files) < MaxListed
  /\ \E index \in ListedIndices \ DOMAIN files :
       LET keypair == generateWallet(bal)
       IN  /\ files' = createDistributedWallet(files, index, keypair)
           /\ bal' = bal @@ (keypair :> 0)
  /\ loc' = NoLocals
  /\ calls' = 0
  /\ UNCHANGED <<hasMain, pc, args, result, log, ghost, faults, status, other>>

NextEnumerate == Enumerate \/ CreateListed

SpecEnumerate == InitEnumerate /\ [][NextEnumerate]_vars

\* The same program started on directories that an earlier run has filled.
SpecFunded == InitFunded /\ [][Next]_vars

\* Two processes on the same directories, each a run of
\* scripts/distribute.ts: the distribute calls of the first and one distribute
\* of the second, interleaved step by step.  Both distribute the same amount
\* from a main wallet that can pay for every transfer.
NextConcurrent ==
  \/ saveMainWallet
  \/ \E walletCount \in WalletCounts, amountLamports \in ConcurrentAmountChoices :
       Distribute(walletCount, amountLamports)
  \/ DistributeCheckMain
  \/ DistributeCheckBalance
  \/ DistributeCountWallets
  \/ DistributeCreateWallet
  \/ DistributeLoadWallets
  \/ DistributeCallTransfer
  \/ DistributeTransfer
  \/ DistributeDelay
  \/ DistributeReturn
  \/ \E walletCount \in WalletCounts, amountLamports \in ConcurrentAmountChoices :
       OtherDistribute(walletCount, amountLamports)
  \/ OtherCountWallets
  \/ OtherCreateWallet
  \/ OtherLoadWallets
  \/ OtherTransfers

\* The directories are empty, and the network fails at most once.
InitConcurrent ==
  /\ status = NoStatus
  /\ other = NoOther
  /\ hasMain = FALSE
  /\ files = <<>>
  /\ \E b \in ConcurrentMainBalances : bal = (Main :> b)
  /\ pc = "idle"
  /\ args = NoArgs
  /\ loc = NoLocals
  /\ result = NoResult
  /\ log = <<>>
  /\ ghost = NoGhost
  /\ calls = 0
  /\ faults = MaxFaults - 1

SpecConcurrent == InitConcurrent /\ [][NextConcurrent]_vars

(***************************************************************************)
(* Properties.  A call is over when pc = "idle"; result, args, loc, log    *)
(* and ghost then still hold what the call left.                           *)
(***************************************************************************)
Max(a, b) == IF a >= b THEN a ELSE b

Count(f) == Cardinality(DOMAIN f)

Failed(e) == e.kind = "balance_error" \/ (e.kind = "transfer" /\ ~e.ok)

Failures(events) == {k \in 1..Len(events) : Failed(events[k])}

Skips(events) == {k \in 1..Len(events) : events[k].kind = "skip"}

\* the number of wallets the batch of the call is over
BatchSize ==
  IF ghost.op = "distribute" THEN args.walletCount ELSE Count(ghost.files0)

\* C1: a distribute call that finds the main wallet and passes the balance
\* check returns one entry of signatures per target, walletCount in all, and
\* leaves max(previousCount, walletCount) wallet files.
C1_OutcomePerTarget ==
  (/\ pc = "idle"
   /\ result.op = "distribute"
   /\ ghost.hadMain
   /\ ghost.balance # -1
   /\ result.error # "InsufficientFunds")
  => /\ result.kind = "returned"
     /\ Len(result.signatures) = args.walletCount
     /\ Len(log) = args.walletCount
     /\ Count(files) = Max(Count(ghost.files0), args.walletCount)

\* distribute(1, ..) returned with two wallet files already there
C1_Witness ==
  /\ pc = "idle"
  /\ result.op = "distribute"
  /\ result.kind = "returned"
  /\ args.walletCount = 1
  /\ Count(ghost.files0) = 2
  /\ Len(result.signatures) = 1
  /\ Count(files) = 2

\* C2: a distribute that follows a returned distribute with the same
\* walletCount, and any distribute whose walletCount is not larger than the
\* number of wallet files, generates no keypair and leaves the (index,
\* keypair) pairs as they were; no distribute overwrites a wallet file.
C2_IdempotentCreation ==
  /\ (/\ ghost.op = "distribute"
      /\ \/ args.walletCount <= Count(ghost.files0)
         \/ /\ ghost.prevOp = "distribute"
            /\ ghost.prevKind = "returned"
            /\ ghost.prevWalletCount = args.walletCount)
     => files = ghost.files0 /\ DOMAIN bal = DOMAIN ghost.bal0
  /\ \A index \in DOMAIN ghost.files0 :
       index \in DOMAIN files /\ files[index] = ghost.files0[index]

\* the second of two returned distribute calls with walletCount 2
C2_Witness ==
  /\ pc = "idle"
  /\ result.op = "distribute"
  /\ result.kind = "returned"
  /\ ghost.prevOp = "distribute"
  /\ ghost.prevKind = "returned"
  /\ ghost.prevWalletCount = 2
  /\ args.walletCount = 2
  /\ Count(files) = 2

\* C3: when a transfer of a batch fails, the call still returns, and every
\* wallet of the batch has been processed in its turn: one event and, unless
\* it was skipped, one entry of signatures for each, one error per failure.
C3_FailureDoesNotAbort ==
  (pc = "idle" /\ Failures(log) # {})
  => /\ result.kind = "returned"
     /\ Len(log) = BatchSize
     /\ \A k \in 1..Len(log) : log[k].slot = k
     /\ Len(result.signatures) = Len(log) - Cardinality(Skips(log))
     /\ Len(result.errors) = Cardinality(Failures(log))

\* a batch of two whose first transfer failed and whose second was attempted
C3_Witness ==
  /\ pc = "idle"
  /\ result.kind = "returned"
  /\ Len(log) = 2
  /\ log[1].kind = "transfer"
  /\ ~log[1].ok
  /\ log[2].kind = "transfer"
  /\ log[2].ok

\* C4: a call that raised because the main wallet is missing or the main
\* balance is insufficient made no transfer call, created no wallet file and
\* left the wallet files and the ledger as they were.
C4_PreconditionFailureNoEffects ==
  (result.kind = "raised" /\ result.error \in {"MissingMainWallet", "InsufficientFunds"})
  => /\ log = <<>>
     /\ files = ghost.files0
     /\ bal = ghost.bal0

\* distribute raised InsufficientFunds asking for more wallets than exist
C4_Witness ==
  /\ result.op = "distribute"
  /\ result.kind = "raised"
  /\ result.error = "InsufficientFunds"
  /\ Count(files) < args.walletCount

\* 0.000005 SOL in lamports
FeeEstimateLamports == FeeNumerator * (LAMPORTS_PER_SOL \div FeeDivisor)

\* C5: with the main wallet present, distribute raises InsufficientFunds
\* exactly when the main balance is below walletCount * amountPerWallet +
\* walletCount * 5000 lamports; a balance equal to that sum proceeds.
C5_InsufficientIffBelowRequired ==
  (/\ pc = "idle"
   /\ result.op = "distribute"
   /\ ghost.hadMain
   /\ ghost.balance # -1)
  => (result.error = "InsufficientFunds"
      <=> ghost.balance <
            args.walletCount * (ghost.amountLamports + FeeEstimateLamports))

\* C6: collect with the main wallet present and no wallet file returns
\* success, no signature, no error and a total of 0, and queries no balance
\* and calls no transfer.
C6_CollectNothing ==
  (/\ pc = "idle"
   /\ result.op = "collect"
   /\ ghost.hadMain
   /\ Count(ghost.files0) = 0)
  => /\ result.kind = "returned"
     /\ result.success
     /\ result.signatures = <<>>
     /\ result.errors = <<>>
     /\ result.totalCollected = FZero
     /\ ghost.queries = 0
     /\ log = <<>>
     /\ bal = ghost.bal0

\* collect returned with the main wallet present and no wallet file
C6_Witness ==
  /\ pc = "idle"
  /\ result.op = "collect"
  /\ result.kind = "returned"
  /\ ghost.hadMain
  /\ Count(ghost.files0) = 0

\* C7: in collect every wallet whose queried balance is at most keepAmount +
\* 5000 lamports is skipped: no transfer is attempted from it and nothing is
\* recorded for it.
C7_SkipAtOrBelowThreshold ==
  \A k \in 1..Len(log) :
    (/\ ghost.op = "collect"
     /\ log[k].balance # -1
     /\ log[k].balance <= ghost.keepLamports + FeeEstimateLamports)
    => log[k].kind = "skip"

\* C8: collect processes every wallet file once, and for every wallet whose
\* queried balance is above keepAmount + 5000 lamports it attempts one
\* transfer from that wallet to the main wallet of balance - keepAmount -
\* 0.000005, as the program's numbers give it.
C8_TransferAboveThreshold ==
  (pc = "idle" /\ result.op = "collect" /\ result.kind = "returned")
  => \A index \in DOMAIN ghost.files0 :
       LET events == {k \in 1..Len(log) : log[k].source = ghost.files0[index]}
       IN  /\ Cardinality(events) = 1
           /\ \A k \in events :
                log[k].balance > ghost.keepLamports + FeeEstimateLamports
                => /\ log[k].kind = "transfer"
                   /\ log[k].destination = Main
                   /\ log[k].amount =
                        FSub(FSub(Sol(log[k].balance), Sol(ghost.keepLamports)),
                             FDivInt(FeeNumerator, FeeDivisor))

\* collect over two wallets, one above the threshold and one not
C8_Witness ==
  /\ pc = "idle"
  /\ result.op = "collect"
  /\ result.kind = "returned"
  /\ Len(log) = 2
  /\ \E k \in 1..2 :
       /\ log[k].kind = "transfer"
       /\ log[k].balance > ghost.keepLamports + FeeEstimateLamports
       /\ log[3 - k].kind = "skip"

\* C9: a distribute or collect that returned reports success exactly when it
\* recorded no error, and it recorded an error exactly when a transfer or a
\* balance query of the batch failed.
C9_SuccessIffNoErrors ==
  (pc = "idle" /\ result.kind = "returned")
  => /\ result.success <=> Len(result.errors) = 0
     /\ result.success <=> Failures(log) = {}

\* a batch of two with one failed transfer and one that went through
C9_Witness ==
  /\ pc = "idle"
  /\ result.kind = "returned"
  /\ ~result.success
  /\ Len(result.errors) = 1
  /\ Cardinality({k \in 1..Len(log) : log[k].kind = "transfer" /\ log[k].ok}) = 1

\* the amounts of the transfers that returned a signature, added in turn
RECURSIVE SumOfMoved(_)
SumOfMoved(events) ==
  IF events = <<>> THEN FZero
  ELSE LET last == events[Len(events)]
           init == SumOfMoved(SubSeq(events, 1, Len(events) - 1))
       IN  IF last.kind = "transfer" /\ last.ok THEN FAdd(init, last.amount)
           ELSE init

Moved(events) == {k \in 1..Len(events) : events[k].kind = "transfer" /\ events[k].ok}

\* C10: collect's totalCollected is the sum of the amounts of the transfers
\* that returned a signature; the wallets list of distribute has one entry of
\* amountPerWallet per transfer that returned a signature, and no other.
C10_TotalOfSuccessfulTransfers ==
  (pc = "idle" /\ result.kind = "returned")
  => IF result.op = "collect"
     THEN result.totalCollected = SumOfMoved(log)
     ELSE /\ Len(result.wallets) = Cardinality(Moved(log))
          /\ \A j \in 1..Len(result.wallets) :
               /\ result.wallets[j].amount = Sol(ghost.amountLamports)
               /\ \E k \in Moved(log) :
                    /\ log[k].destination = result.wallets[j].publicKey
                    /\ Cardinality({m \in Moved(log) : m <= k}) = j

\* collect over two wallets: one transfer went through, one failed
C10_Witness ==
  /\ pc = "idle"
  /\ result.op = "collect"
  /\ result.kind = "returned"
  /\ Cardinality(Moved(log)) = 1
  /\ Cardinality(Failures(log)) = 1
  /\ result.totalCollected # FZero

\* the events of the wallets that were not skipped, in their order
Recorded(events) == SelectSeq(events, LAMBDA e : e.kind # "skip")

ErrorsOf(errors, slot) == {j \in 1..Len(errors) : errors[j].wallet = slot}

\* C11: every wallet processed and not skipped has either a signature and no
\* error entry, or the empty placeholder and one error entry; the empty
\* entries of signatures are as many as the errors.
C11_SignatureXorError ==
  LET recorded == Recorded(log)
      signatures == IF result.kind = "returned" THEN result.signatures
                    ELSE loc.signatures
      errors == IF result.kind = "returned" THEN result.errors ELSE loc.errors
  IN  /\ Len(signatures) = Len(recorded)
      /\ \A j \in 1..Len(recorded) :
           IF recorded[j].kind = "transfer" /\ recorded[j].ok
           THEN signatures[j] # NoSig /\ ErrorsOf(errors, recorded[j].slot) = {}
           ELSE /\ signatures[j] = NoSig
                /\ Cardinality(ErrorsOf(errors, recorded[j].slot)) = 1
      /\ Cardinality({j \in 1..Len(signatures) : signatures[j] = NoSig}) = Len(errors)

\* a returned batch of two: one signature, one placeholder with its error
C11_Witness ==
  /\ pc = "idle"
  /\ result.kind = "returned"
  /\ Len(result.signatures) = 2
  /\ Len(result.errors) = 1
  /\ \E j \in 1..2 : result.signatures[j] = NoSig /\ result.signatures[3 - j] # NoSig

\* C12: the k-th entry of the returned signatures, and in distribute the
\* k-th entry of the returned wallets list, is that of wallet k of the batch.
C12_OutcomesAlignedBySlot ==
  (pc = "idle" /\ result.kind = "returned")
  => /\ \A k \in 1..Len(result.signatures) : Recorded(log)[k].slot = k
     /\ \A k \in 1..Len(result.wallets) :
          result.wallets[k].publicKey = loc.targetWallets[k]

TransferAttempts(events) == {k \in 1..Len(events) : events[k].kind = "transfer"}

\* C13 as stated: signatures has one entry per wallet for which a transfer
\* was attempted, and for distribute signatures.length = wallets.length +
\* errors.length = the number of target wallets.
C13_EntryPerTransferAttempt ==
  (pc = "idle" /\ result.kind = "returned")
  => /\ Len(result.signatures) = Cardinality(TransferAttempts(log))
     /\ result.op = "distribute"
        => /\ Len(result.signatures) = Len(result.wallets) + Len(result.errors)
           /\ Len(result.signatures) = Len(loc.targetWallets)

\* C13: signatures has one entry per wallet that was not skipped, that is
\* per wallet for which a transfer was attempted or, in collect, the balance
\* query failed; for distribute signatures.length = wallets.length +
\* errors.length = the number of target wallets.
C13_EntryPerProcessedWallet ==
  (pc = "idle" /\ result.kind = "returned")
  => /\ Len(result.signatures) = Len(log) - Cardinality(Skips(log))
     /\ Cardinality(TransferAttempts(log)) =
          Len(result.signatures)
            - Cardinality({k \in 1..Len(log) : log[k].kind = "balance_error"})
     /\ result.op = "distribute"
        => /\ Len(result.signatures) = Len(result.wallets) + Len(result.errors)
           /\ Len(result.signatures) = Len(loc.targetWallets)
           /\ Len(result.signatures) = Cardinality(TransferAttempts(log))

\* collect returned two entries, one of them for a failed balance query
C13_Witness ==
  /\ pc = "idle"
  /\ result.op = "collect"
  /\ result.kind = "returned"
  /\ Len(result.signatures) = 2
  /\ Cardinality(TransferAttempts(log)) = 1
  /\ \E k \in 1..Len(log) : log[k].kind = "balance_error"

C15_SlotsNeverDeleted ==
  [][/\ DOMAIN files \subseteq DOMAIN files'
     /\ files' # files => pc = "d_creating" /\ ghost.op = "distribute"
     /\ (ghost'.op = "collect" \/ status' # status) => files' = files]_vars

\* two wallet files are still there after a collect that emptied them
C15_Witness ==
  /\ pc = "idle"
  /\ result.op = "collect"
  /\ result.kind = "returned"
  /\ result.success
  /\ Count(files) = 2
  /\ Count(ghost.files0) = 2

\* C16: the indices of the wallet files are 0..n-1 without a gap, also
\* after a distribute that was interrupted in its creation loop, and the
\* creation loop writes to no index that holds a keypair.
C16_ContiguousSlots ==
  /\ DOMAIN files = 0..(Count(files) - 1)
  /\ pc = "d_creating" => loc.i \notin DOMAIN files

\* a distribute completes the wallets an interrupted distribute left
C16_Witness ==
  /\ pc = "idle"
  /\ result.op = "distribute"
  /\ result.kind = "returned"
  /\ ghost.prevOp = "distribute"
  /\ ghost.prevKind = "none"
  /\ Count(ghost.files0) = 1
  /\ DOMAIN files = {0, 1}

\* the file index under which a keypair is saved
IndexOf(keypair) == CHOOSE index \in DOMAIN files : files[index] = keypair

RECURSIVE SumOfBalances(_)
SumOfBalances(infos) ==
  IF infos = <<>> THEN FZero
  ELSE FAdd(SumOfBalances(SubSeq(infos, 1, Len(infos) - 1)),
            infos[Len(infos)].balance)

\* C17: getDistributionStatus changes no wallet file and no balance and makes
\* no transfer; it reports one entry per wallet file, in ascending order of
\* the file index, and totalDistributed is the sum of the reported balances.
C17_StatusIsPureRead ==
  /\ [][status' # status /\ status'.kind # "none"
        => UNCHANGED <<hasMain, files, bal, log, result>>]_vars
  /\ [](status.kind = "returned"
        => LET infos == status.distributedWallets
           IN  /\ Len(infos) = Count(files)
               /\ {infos[k].publicKey : k \in 1..Len(infos)}
                    = {files[index] : index \in DOMAIN files}
               /\ \A j, k \in 1..Len(infos) :
                    j < k => IndexOf(infos[j].publicKey) < IndexOf(infos[k].publicKey)
               /\ \A k \in 1..Len(infos) :
                    /\ infos[k].index = k - 1
                    /\ infos[k].balance = Sol(bal[infos[k].publicKey])
               /\ status.totalDistributed = SumOfBalances(infos)
               /\ infos = <<>> => status.totalDistributed = FZero)

\* a status over two funded wallets
C17_Witness ==
  /\ status.kind = "returned"
  /\ Len(status.distributedWallets) = 2
  /\ \A k \in 1..2 : bal[status.distributedWallets[k].publicKey] > 0

\* C18: without a main wallet file getDistributionStatus does not fail for
\* that: it returns mainWallet = null, never asks for the main balance, and
\* reports every wallet file and the total.
C18_StatusWithoutMain ==
  /\ ~hasMain /\ status.kind = "raised"
     => \E k \in 1..Len(status.queried) : status.queried[k] # Main
  /\ ~hasMain /\ status.kind # "none"
     => \A k \in 1..Len(status.queried) : status.queried[k] # Main
  /\ ~hasMain /\ status.kind = "returned"
     => /\ status.mainWallet = null
        /\ Len(status.distributedWallets) = Count(files)
        /\ status.queried =
             [k \in 1..Count(files) |-> status.distributedWallets[k].publicKey]
  /\ hasMain /\ status.kind = "returned" => status.mainWallet.present

\* a status returned without a main wallet file
C18_Witness ==
  /\ ~hasMain
  /\ status.kind = "returned"
  /\ status.mainWallet = null

\* the call that ended is a collect that follows a returned collect with the
\* same keepAmount
SecondCollect ==
  /\ ghost.op = "collect"
  /\ ghost.prevOp = "collect"
  /\ ghost.prevKind = "returned"
  /\ ghost.prevKeepLamports = ghost.keepLamports

\* every wallet of the call was skipped, and the call reported so
SkippedAll ==
  /\ \A k \in 1..Len(log) : log[k].kind = "skip"
  /\ (pc = "idle" /\ result.kind = "returned")
     => /\ result.success
        /\ result.totalCollected = FZero
        /\ Len(log) = Count(files)

Lost == {keypair \in DOMAIN bal \ {Main} :
           \A index \in DOMAIN files : files[index] # keypair}

\* C20: as long as no distribute call of one process began while a call of
\* the other process was running, no saved keypair has been overwritten.
\* (The witness is the other half: with two calls interleaved, both read the
\* same count, both write the same index, and a funded keypair is lost.)
C20_SerializedCallsLoseNoKeypair == ~other.overlap => Lost = {}

\* both processes read the same count, the first one created and funded a
\* wallet, and the second one has just written its own keypair over it
C20_Witness ==
  /\ other.overlap
  /\ other.pc \in {"d_creating", "d_load"}
  /\ ghost.op = "distribute"
  /\ pc \notin {"d_main", "d_balance", "d_create", "crashed"}
  /\ loc.existingWalletCount = other.existingWalletCount
  /\ \E keypair \in Lost :
       /\ bal[keypair] > 0
       /\ \E k \in Moved(log) : log[k].destination = keypair

\* the wallet of a transfer: the receiver in distribute, the sender in collect
WalletOf(e) == IF e.source = Main THEN e.destination ELSE e.source

\* C21: at most one transfer is in flight; a transfer is in flight only while
\* the call waits for it; every wallet processed before it has its outcome
\* in the log when a transfer is called; and the wallets are processed in
\* ascending order of position and of file index.
C21_OneTransferAtATime ==
  /\ Cardinality(loc.inFlight) <= 1
  /\ loc.inFlight # {} <=> pc \in {"d_await", "c_await"}
  /\ \A slot \in loc.inFlight :
       /\ slot = Len(log) + 1
       /\ \A k \in 1..Len(log) : log[k].slot < slot
  /\ \A j, k \in 1..Len(log) :
       j < k => /\ log[j].slot < log[k].slot
                /\ IndexOf(WalletOf(log[j])) < IndexOf(WalletOf(log[k]))

\* the transfer to the second wallet is in flight after the first one failed
C21_Witness ==
  /\ pc = "d_await"
  /\ loc.inFlight = {2}
  /\ Len(log) = 1
  /\ ~log[1].ok

\* C22: in distribute one pacing delay elapses after each transfer but the
\* last, whether the transfer returned or threw: the transfer to wallet k + 1
\* is called after the delay that follows wallet k, no delay follows the last
\* wallet, and a returned batch over N wallets has made N - 1 delays.
C22_PacingInDistribute ==
  ghost.op = "distribute"
  => /\ \A k \in 1..Len(loc.delays) :
          /\ loc.delays[k] = k
          /\ k <= Len(log)
          /\ k < Len(loc.targetWallets)
     /\ pc = "d_await" => Len(loc.delays) = Len(log)
     /\ pc = "d_delay" => Len(loc.delays) = Len(log) - 1
     /\ (pc = "idle" /\ result.kind = "returned")
        => /\ args.walletCount >= 1
           /\ Len(log) = args.walletCount
           /\ Len(loc.delays) = args.walletCount - 1

\* a returned batch of two with one delay, after a transfer that failed
C22_Witness ==
  /\ ghost.op = "distribute"
  /\ pc = "idle"
  /\ result.kind = "returned"
  /\ Len(log) = 2
  /\ ~log[1].ok
  /\ loc.delays = <<1>>

\* the positions after which a pacing delay elapsed
Delays == {loc.delays[k] : k \in 1..Len(loc.delays)}

\* C23: in collect a pacing delay elapses between any two successive transfer
\* attempts, and when the batch has returned no delay has followed its last
\* transfer attempt, also when the wallets after it were skipped.
C23_PacingInCollect ==
  ghost.op = "collect"
  => /\ \A j, k \in TransferAttempts(log) :
          j < k => \E d \in Delays : log[j].slot <= d /\ d < log[k].slot
     /\ (pc = "idle" /\ result.kind = "returned")
        => \A d \in Delays : \E k \in TransferAttempts(log) : d < log[k].slot

\* C24: within one call no wallet has a second transfer attempt: the wallets
\* of the events in the log are all different, and a transfer is called only
\* for a wallet that has no event yet; a wallet whose transfer failed stays
\* failed.
C24_NoRetries ==
  /\ \A j, k \in 1..Len(log) :
       j # k => /\ log[j].slot # log[k].slot
                /\ WalletOf(log[j]) # WalletOf(log[k])
  /\ \A slot \in loc.inFlight :
       \A k \in 1..Len(log) :
         /\ log[k].slot # slot
         /\ WalletOf(log[k]) # loc.targetWallets[slot]
  /\ Len(loc.errors) = Cardinality(Failures(log))

\* collect returned after the transfer from its last wallet failed and was
\* not tried again, the wallet still holding its funds
C24_Witness ==
  /\ ghost.op = "collect"
  /\ pc = "idle"
  /\ result.kind = "returned"
  /\ Len(log) = 2
  /\ log[2].kind = "transfer"
  /\ log[2].reason = "Network"
  /\ bal[log[2].source] > ghost.keepLamports + FeeEstimateLamports

\* C25: a distribute that finds more wallet files than walletCount creates
\* no file, takes as targets the wallets of the walletCount lowest indices
\* in index order, and attempts no transfer to a wallet of index walletCount
\* or above.
C25_Truncation ==
  (ghost.op = "distribute" /\ Count(ghost.files0) > args.walletCount)
  => /\ files = ghost.files0
     /\ pc \in {"d_loop", "d_await", "d_delay", "d_return"}
        => loc.targetWallets = [k \in 1..args.walletCount |-> files[k - 1]]
     /\ \A slot \in loc.inFlight : slot <= args.walletCount
     /\ \A k \in 1..Len(log) :
          /\ log[k].destination = files[k - 1]
          /\ IndexOf(log[k].destination) < args.walletCount
     /\ \A index \in DOMAIN files :
          index >= args.walletCount => bal[files[index]] = ghost.bal0[files[index]]

\* distribute(1, ..) over two wallet files has funded wallet-0 and left
\* wallet-1 alone
C25_Witness ==
  /\ ghost.op = "distribute"
  /\ pc = "idle"
  /\ result.kind = "returned"
  /\ result.success
  /\ args.walletCount = 1
  /\ DOMAIN ghost.files0 = {0, 1}
  /\ bal[files[0]] > ghost.bal0[files[0]]
  /\ bal[files[1]] = ghost.bal0[files[1]]

\* C26: whatever order the file system lists the wallet files in,
\* loadDistributedWallets returns every keypair once, in ascending order of
\* the number in the file name (wallet-2 before wallet-10), and so the same
\* sequence at every enumeration of the same files.
C26_StableEnumeration ==
  /\ \A listing \in readdirSync(files) :
       LET wallets == loadDistributedWalletsFrom(files, listing)
       IN  /\ Len(wallets) = Count(files)
           /\ \A j, k \in 1..Len(wallets) :
                j < k => IndexOf(wallets[j]) < IndexOf(wallets[k])
           /\ wallets = loadDistributedWallets(files)
           /\ calls >= 1 => loc.targetWallets = wallets

\* the second enumeration of a directory holding wallet-2, wallet-10 and
\* wallet-11, of which wallet-10 was created last
C26_Witness ==
  /\ calls = 2
  /\ DOMAIN files = {2, 10, 11}
  /\ files[10] > files[11]
  /\ loc.targetWallets = <<files[2], files[10], files[11]>>

\* the call has returned a result after one event for each wallet of its
\* batch, in their order
RanToCompletion ==
  /\ pc = "idle"
  /\ result.kind = "returned"
  /\ Len(log) = BatchSize
  /\ \A k \in 1..Len(log) : log[k].slot = k

\* C27: a distribute that has passed its balance check, and a collect that
\* has found the main wallet, returns a result in the end, having processed
\* every wallet of its batch once, whatever failed or was skipped (unless the
\* process is stopped while it creates wallet files).
C27_RunToCompletion ==
  \A c \in 1..MaxCalls :
    (calls = c /\ pc \in {"d_create", "c_load"})
    ~> (calls = c /\ (RanToCompletion \/ pc = "crashed"))

\* collect returned over two wallets, the first skipped and the transfer from
\* the second failed
C27_Witness ==
  /\ ghost.op = "collect"
  /\ RanToCompletion
  /\ Len(log) = 2
  /\ log[1].kind = "skip"
  /\ log[2].kind = "transfer"
  /\ ~log[2].ok

(***************************************************************************)
(* distribute on a ledger of full width.  A lamport count of the chain is  *)
(* a u64 and getBalance returns it as a JavaScript number, exact below     *)
(* 2^53; the lamports of this ledger are limb sequences, so that balances  *)
(* of millions of SOL take part, where a binary64 SOL amount no longer      *)
(* tells single lamports apart.                                            *)
(***************************************************************************)
\* (r * 2^k + the low k bits of limb) divided by d, bit by bit, for
\* r < d < 2^30
RECURSIVE DivLimbIn(_, _, _, _, _)
DivLimbIn(r, d, k, acc, limb) ==
  IF k = 0 \/ r < 0 \/ acc < 0 THEN [q |-> acc, r |-> r]
  ELSE LET r2 == 2 * r + ((limb \div (2 ^ (k - 1))) % 2)
           bit == IF r2 >= d THEN 1 ELSE 0
       IN  DivLimbIn(r2 - bit * d, d, k - 1, 2 * acc + bit, limb)

\* Quotient (limbs, high zero limbs kept) and remainder of n by d < 2^30.
RECURSIVE BDivMod(_, _)
BDivMod(n, d) ==
  IF n = <<>> THEN [q |-> <<>>, r |-> 0]
  ELSE LET high == BDivMod(Tail(n), d)
           l == DivLimbIn(high.r, d, LimbBits, 0, Head(n))
       IN  [q |-> <<l.q>> \o high.q, r |-> l.r]

\* sol * 10^9 + lamports
Lamports(sol, lamports) ==
  BAdd(BMul(BFromNat(sol), BFromNat(LAMPORTS_PER_SOL)), BFromNat(lamports))

\* lamports / LAMPORTS_PER_SOL, correctly rounded; also the value of the
\* decimal literal with nine places that the lamports name
SolWide(lamports) ==
  LET whole == BDivMod(lamports, LAMPORTS_PER_SOL)
      fr == DivFrac(whole.r, LAMPORTS_PER_SOL, FracLimbs)
      M == BStrip(fr.q \o whole.q)
  IN  Round53(FALSE, M, -(LimbBits * FracLimbs), fr.r # 0)

\* BigInt(x) of a non-negative integer x
BFloor(x) ==
  IF x.m = <<>> THEN <<>>
  ELSE IF x.e >= 0 THEN BShl(x.m, x.e) ELSE BShr(x.m, -x.e)

TransferFailureWide(reason) ==
  [ok |-> FALSE, reason |-> reason, lamports |-> <<>>, fee |-> <<>>]

\* transferSOL on the ledger of full width
transferSOLWide(source, amount, ledger, mayFail) ==
  LET balanceSOL == SolWide(ledger[source])
      lamports == FMul(amount, FFromInt(LAMPORTS_PER_SOL))
  IN  IF FLt(balanceSOL, amount) THEN {TransferFailureWide("InsufficientBalance")}
      ELSE IF ~FIsInteger(lamports) THEN {TransferFailureWide("NotAnInteger")}
      ELSE (IF mayFail THEN {TransferFailureWide("Network")} ELSE {})
           \cup {IF BCmp(ledger[source],
                         BAdd(BFloor(lamports), BFromNat(fee))) >= 0
                 THEN [ok |-> TRUE, reason |-> "", lamports |-> BFloor(lamports),
                       fee |-> BFromNat(fee)]
                 ELSE TransferFailureWide("Rejected") : fee \in NetworkFees}

SettleWide(ledger, source, destination, t) ==
  IF t.ok
  THEN [a \in DOMAIN ledger |->
          IF a = source THEN BSub(BSub(ledger[a], t.lamports), t.fee)
          ELSE IF a = destination THEN BAdd(ledger[a], t.lamports)
          ELSE ledger[a]]
  ELSE ledger

\* amountPerWallet of the calls, as whole SOL and lamports: 0.001005 and
\* 2500000.000001
WideAmounts == {[sol |-> 0, lamports |-> 1005000],
                [sol |-> 2500000, lamports |-> 1000]}

WideAmountLamports ==
  {Lamports(amount.sol, amount.lamports) : amount \in WideAmounts}

\* lamports that the main wallet is short of what a batch needs
WideShortfalls == {0, 1}

\* walletCount * (amount + 5000 lamports)
BatchNeed(walletCount, amount) ==
  BMulSmall(BAdd(amount, BFromNat(FeeEstimateLamports)), walletCount)

\* MaxWallets wallet files of earlier runs, empty, and a main wallet that
\* holds what a batch needs or somewhat less.
InitWide ==
  /\ status = NoStatus
  /\ other = NoOther
  /\ hasMain = TRUE
  /\ files = [index \in 0..(MaxWallets - 1) |-> index + 1]
  /\ \E walletCount \in 1..MaxWallets, amount \in WideAmountLamports,
        short \in WideShortfalls :
       bal = [a \in 0..MaxWallets |->
                IF a = Main
                THEN BSub(BatchNeed(walletCount, amount), BFromNat(short))
                ELSE <<>>]
  /\ pc = "idle"
  /\ args = NoArgs
  /\ loc = NoLocals
  /\ result = NoResult
  /\ log = <<>>
  /\ ghost = NoGhost
  /\ calls = 0
  /\ faults = 0

DistributeWide(walletCount, amount) ==
  /\ BeginCall("distribute", amount, 0)
  /\ args' = [walletCount |-> walletCount,
              amountPerWallet |-> SolWide(amount), keepAmount |-> FZero]
  /\ pc' = DistributeSteps[1]

DistributeCheckBalanceWide ==
  /\ pc = "d_balance"
  /\ \/ /\ faults < MaxFaults
        /\ faults' = faults + 1
        /\ ghost' = [ghost EXCEPT !.queries = @ + 1]
        /\ Raise("distribute", "BalanceQueryFailed")
     \/ /\ ghost' = [ghost EXCEPT !.queries = @ + 1, !.balance = bal[Main]]
        /\ IF InsufficientBalance(SolWide(bal[Main]), args.walletCount,
                                  args.amountPerWallet)
           THEN Raise("distribute", "InsufficientFunds")
           ELSE pc' = StepAfter(DistributeSteps, "d_balance") /\ UNCHANGED result
        /\ UNCHANGED faults
  /\ UNCHANGED <<hasMain, files, bal, args, loc, log, calls,
               status, other>>

DistributeTransferWide ==
  /\ pc = "d_await"
  /\ LET wallet == loc.targetWallets[loc.i + 1]
     IN  \E t \in transferSOLWide(Main, args.amountPerWallet, bal,
                                  faults < MaxFaults) :
           /\ bal' = SettleWide(bal, Main, wallet, t)
           /\ faults' = IF t.reason = "Network" THEN faults + 1 ELSE faults
           /\ log' = Append(log, TransferEvent(loc.i + 1, Main, wallet,
                                               args.amountPerWallet, bal[Main], t))
           /\ LET l == Returned(IF t.ok
                                THEN DistributeSuccess(loc, wallet, args.amountPerWallet,
                                                       <<Main, wallet>>)
                                ELSE DistributeCatch(loc, t.reason))
              IN  IF DelayAfter(loc.i, loc.targetWallets)
                  THEN loc' = l /\ pc' = "d_delay"
                  ELSE /\ loc' = [l EXCEPT !.i = NextIndex(loc.i, t.ok)]
                       /\ pc' = LoopPc(NextIndex(loc.i, t.ok), loc.targetWallets,
                                       "d_loop", DistributeSteps)
  /\ UNCHANGED <<hasMain, files, args, result, ghost, calls,
               status, other>>

NextWide ==
  \/ \E walletCount \in 1..MaxWallets, amount \in WideAmountLamports :
       DistributeWide(walletCount, amount)
  \/ DistributeCheckMain
  \/ DistributeCheckBalanceWide
  \/ DistributeCountWallets
  \/ DistributeLoadWallets
  \/ DistributeCallTransfer
  \/ DistributeTransferWide
  \/ DistributeDelay
  \/ DistributeReturn

SpecWide == InitWide /\ [][NextWide]_vars

\* C28: in a distribute that has passed its balance check, with fees of at
\* most the estimate and no other spending from the main wallet, the main
\* balance at the start of every transfer is at least the lamports of
\* amountPerWallet plus the fee, and no transfer fails for lack of balance,
\* whichever of the other transfers failed.
C28_PreflightSufficiency ==
  ghost.op = "distribute" =>
    \A k \in 1..Len(log) :
      /\ log[k].reason \notin {"InsufficientBalance", "Rejected"}
      /\ BCmp(log[k].balance,
              BAdd(ghost.amountLamports, BFromNat(FeeEstimateLamports))) >= 0

\* the place in signatures of the wallet of log[k]
PlaceOf(k) == Len(Recorded(SubSeq(log, 1, k)))

\* C29: in collect, a slot whose balance query failed has no transfer attempt
\* and keeps its lamports; it has one entry of errors and an empty
\* placeholder at its place in signatures; the result has success false; and
\* the later slots are processed all the same.
C29_BalanceQueryFailure ==
  ghost.op = "collect" =>
    \A k \in 1..Len(log) :
      log[k].kind = "balance_error" =>
        /\ \A j \in 1..Len(log) : j # k => log[j].slot # log[k].slot
        /\ bal[log[k].source] = ghost.bal0[log[k].source]
        /\ Cardinality(ErrorsOf(loc.errors, log[k].slot)) = 1
        /\ PlaceOf(k) <= Len(loc.signatures)
        /\ loc.signatures[PlaceOf(k)] = NoSig
        /\ Len(loc.signatures) = PlaceOf(Len(log))
        /\ (pc = "idle" /\ result.kind = "returned") =>
             /\ ~result.success
             /\ result.errors = loc.errors
             /\ result.signatures = loc.signatures
             /\ Len(log) = BatchSize

\* collect returned over two wallets: the balance query of the first failed,
\* the second was emptied into the main wallet
C29_Witness ==
  /\ ghost.op = "collect"
  /\ pc = "idle"
  /\ result.kind = "returned"
  /\ Len(log) = 2
  /\ log[1].kind = "balance_error"
  /\ log[2].kind = "transfer"
  /\ log[2].ok
  /\ result.signatures[1] = NoSig
  /\ result.signatures[2] # NoSig

\* distribute returned without an error
FullySuccessful ==
  /\ ghost.op = "distribute"
  /\ pc = "idle"
  /\ result.kind = "returned"
  /\ result.success

\* the invocation before this one was a distribute with the same arguments
\* and returned without an error
SameAsBefore ==
  /\ ghost.prevOp = "distribute"
  /\ ghost.prevKind = "returned"
  /\ ghost.prevSuccess
  /\ ghost.prevWalletCount = args.walletCount
  /\ ghost.prevAmountLamports = ghost.amountLamports

\* the lamports of a keypair when the call began
Before(wallet) == IF wallet \in DOMAIN ghost.bal0 THEN ghost.bal0[wallet] ELSE 0

\* C30: a distribute that reached its loop and returned has attempted one
\* transfer of amountPerWallet to each of the first walletCount slots,
\* whatever they held; when it returned without an error each of these slots
\* holds amountPerWallet more than when the call began; and after two such
\* invocations with the same arguments on a new directory each holds twice
\* amountPerWallet.
C30_DistributeKeepsNoMemory ==
  /\ (ghost.op = "distribute" /\ pc = "idle" /\ result.kind = "returned") =>
       /\ Len(log) = args.walletCount
       /\ \A k \in 1..Len(log) :
            /\ log[k].kind = "transfer"
            /\ log[k].slot = k
            /\ log[k].destination = loadDistributedWallets(files)[k]
            /\ log[k].amount = args.amountPerWallet
  /\ FullySuccessful =>
       \A k \in 1..args.walletCount :
         bal[loadDistributedWallets(files)[k]]
           = Before(loadDistributedWallets(files)[k]) + ghost.amountLamports
  /\ (FullySuccessful /\ SameAsBefore /\ calls = 2) =>
       \A k \in 1..args.walletCount :
         bal[loadDistributedWallets(files)[k]] = 2 * ghost.amountLamports

\* the second of two successful distributes over two wallets with the same
\* arguments: both slots held amountPerWallet when it began
C30_Witness ==
  /\ FullySuccessful
  /\ SameAsBefore
  /\ calls = 2
  /\ args.walletCount = 2
  /\ \A k \in 1..2 :
       /\ Before(loadDistributedWallets(files)[k]) = ghost.amountLamports
       /\ bal[loadDistributedWallets(files)[k]] = 2 * ghost.amountLamports

====
